---- MODULE Spec2Model ----
(***************************************************************************)
(* The message reconciler of baileys-api (messageHandler): six handlers    *)
(* that mirror the protocol client's events into the Message table and     *)
(* publish one outcome event per operation.                                *)
(*                                                                         *)
(* Granularity: one action per storage round trip of a handler.  A         *)
(* prisma.$transaction is split where the code reads a row and later       *)
(* writes from what it read (findFirst, then delete/create or update):     *)
(* the read is one step, the writes with the commit are the other, so two  *)
(* handler invocations can interleave exactly where the asynchronous code  *)
(* can.  Uncommitted writes are never visible to another transaction.      *)
(*                                                                         *)
(* Specifications:                                                         *)
(*   Spec           the reconcilers of two sessions while subscribed       *)
(*   SpecLifecycle  the same from construction, with listen and unlisten   *)
(*   SpecBulk       the REST controller sendBulk                           *)
(*   SpecList       the REST controller list over a table at rest          *)
(***************************************************************************)
EXTENDS Integers, Sequences, FiniteSets, TLC

\* Handler invocations the event source dispatches in one behaviour.
MaxEvents == 2
\* Items in one event's batch.
MaxBatch == 2
\* Entries in the body of one sendBulk request.
MaxBody == 3
\* The largest limit of a list request.
MaxLimit == 3

Sessions == {"s1", "s2"}
Slots == {1, 2}
Faults == {"none", "statement", "commit"}

VARIABLES
    table,      \* the rows of the Message table (committed state)
    nextPk,     \* the next value of the autoincrement column pkId
    procs,      \* the handler invocations in flight, one per slot
    out,        \* the last handler step: its input, what it had read, the outcome events it emitted
    nEvents,    \* handler invocations dispatched so far
    listening,  \* per reconciler: its flag listening
    listeners,  \* per session's event source: how often each handler is registered on its event kind
    bulk,       \* the sendBulk request in progress: its body, loop index, results, errors, response
    page        \* the list client: session, limit, the cursor it holds, the rows it was given so far

vars == <<table, nextPk, procs, out, nEvents, listening, listeners, bulk, page>>

\* What the handlers of the reconciler leave alone.
lifecycle == <<listening, listeners>>
rest == <<bulk, page>>

----------------------------------------------------------------------------
(* Values *)

\* A number on the wire is a plain number or a Long; storage holds numbers.
Long(n) == [long |-> TRUE, n |-> n]
toNumber(v) == [long |-> FALSE, n |-> v.n]

Key(jid, id) == [remoteJid |-> jid, id |-> id]

WAMessage(jid, id, status) ==
    [key |-> Key(jid, id), status |-> status, messageTimestamp |-> Long(7)]

\* The feed of session s1: two messages of chat "a", the first of them in two
\* versions and also under the chat's device-suffixed jid "a:1".  The feed of
\* session s2: one message, with a key that s1 uses too.
FeedKeys(sid) ==
    IF sid = "s1"
    THEN {Key("a", "m1"), Key("a:1", "m1"), Key("a", "m2")}
    ELSE {Key("a", "m1")}

Feed(sid) ==
    IF sid = "s1"
    THEN {WAMessage("a", "m1", 1), WAMessage("a", "m1", 2),
          WAMessage("a:1", "m1", 1), WAMessage("a", "m2", 1)}
    ELSE {WAMessage("a", "m1", 1)}

\* The keys that the feed's updates, receipts and reactions name.
ItemKeys(sid) ==
    IF sid = "s1" THEN {Key("a", "m1")} ELSE {Key("a", "m1")}

FeedJids(sid) == {k.remoteJid : k \in FeedKeys(sid)}

\* Batches of at most MaxBatch items drawn from S.
Batches(S) == UNION {[1..n -> S] : n \in 0..MaxBatch}

\* Strips the device suffix of a jid.
jidNormalizedUser(jid) == IF jid = "a:1" THEN "a" ELSE jid

\* Wire representation to storage representation: coerces the Long.
transformPrisma(data) == [data EXCEPT !.messageTimestamp = toNumber(@)]

emitEvent(event, sid, data, status) ==
    [event |-> event, sessionId |-> sid, data |-> data, status |-> status]

getKeyAuthor(key) ==
    IF key.fromMe THEN "me"
    ELSE IF key.participant # "" THEN key.participant
    ELSE key.remoteJid

----------------------------------------------------------------------------
(* The Message table *)

CompositeKey(r) == <<r.sessionId, r.remoteJid, r.id>>

\* The row storage builds from create data that names no pkId and no
\* userReceipt or reactions.
NewRow(data, pk) ==
    [pkId |-> pk, sessionId |-> data.sessionId, remoteJid |-> data.remoteJid,
     id |-> data.id, key |-> data.key, status |-> data.status,
     messageTimestamp |-> data.messageTimestamp,
     userReceipt |-> <<>>, reactions |-> <<>>]

\* The unique indexes of the table: the primary key pkId and the composite
\* key sessionId_remoteJid_id.
UniqueOk(rows) ==
    /\ \A r1, r2 \in rows : CompositeKey(r1) = CompositeKey(r2) => r1 = r2
    /\ \A r1, r2 \in rows : r1.pkId = r2.pkId => r1 = r2

\* where: {sessionId_remoteJid_id: {id, remoteJid, sessionId}}
whereUnique(tbl, sid, jid, id) ==
    {r \in tbl : r.sessionId = sid /\ r.remoteJid = jid /\ r.id = id}

\* findFirst({where: {id, remoteJid, sessionId}})
findFirst(tbl, sid, key) ==
    {r \in tbl : r.id = key.id /\ r.remoteJid = key.remoteJid /\ r.sessionId = sid}

deleteMany(tbl, matching) == tbl \ matching

\* create({data}) of one full row: rejected by a unique index, else stored.
create(tbl, row) ==
    IF UniqueOk(tbl \cup {row}) /\ row \notin tbl
    THEN [ok |-> TRUE, table |-> tbl \cup {row}]
    ELSE [ok |-> FALSE, table |-> tbl]

\* createMany({data}): all rows or none.
createManyNoIndex(tbl, data, pk) ==
    [ok |-> TRUE,
     table |-> tbl \cup {NewRow(data[i], pk + i - 1) : i \in 1..Len(data)}]

createMany(tbl, data, pk) ==
    LET rows == {NewRow(data[i], pk + i - 1) : i \in 1..Len(data)}
    IN  IF /\ \A i, j \in 1..Len(data) :
                 CompositeKey(data[i]) = CompositeKey(data[j]) => i = j
           /\ UniqueOk(tbl \cup rows)
        THEN [ok |-> TRUE, table |-> tbl \cup rows]
        ELSE [ok |-> FALSE, table |-> tbl]

----------------------------------------------------------------------------
(* Handler invocations in flight *)

NoItem == [key |-> Key("", "")]

Idle == [op |-> "idle", sessionId |-> "", type |-> "", left |-> 0,
         pc |-> "", item |-> NoItem, prev |-> <<>>]

Started(op, sid, type, n, pc) ==
    [op |-> op, sessionId |-> sid, type |-> type, left |-> n,
     pc |-> pc, item |-> NoItem, prev |-> <<>>]

\* The invocation in slot i after it finished one item of its batch.
NextItem(p, pc) ==
    IF p.left = 1 THEN Idle
    ELSE [p EXCEPT !.left = p.left - 1, !.pc = pc, !.item = NoItem, !.prev = <<>>]

\* events: what emitEvent published; bus: what event.emit put on the event
\* source; escaped: the step ended with an exception leaving the handler.
Out(op, sid, arg, before, fault, events) ==
    [op |-> op, sessionId |-> sid, arg |-> arg, before |-> before,
     fault |-> fault, events |-> events, bus |-> <<>>, escaped |-> FALSE]

Success(event, sid, data) == <<emitEvent(event, sid, data, "success")>>
Error(event, sid) == <<emitEvent(event, sid, "undefined", "error")>>

\* try {...} catch (e) {emitEvent(event, sessionId, undefined, "error", message)}
\* around a step that has published o.events so far: what was thrown inside
\* the try is reported and goes no further.
catchRethrow(o, thrown, event) ==
    [o EXCEPT !.escaped = thrown]

catch(o, thrown, event) ==
    IF thrown THEN [o EXCEPT !.events = @ \o Error(event, o.sessionId)] ELSE o

\* The invocation after one item of its batch: an exception that left the
\* handler has ended its loop.
AfterItem(p, o, pc) == IF o.escaped THEN Idle ELSE NextItem(p, pc)

\* The table is the database's and outlives the handler: construction finds
\* it empty or holding rows that earlier history syncs and upserts stored.
SeedData(sid, jid, id) ==
    [key |-> Key(jid, id), status |-> 1, messageTimestamp |-> toNumber(Long(7)),
     remoteJid |-> jid, id |-> id, sessionId |-> sid]

SeedTables ==
    {{},
     {NewRow(SeedData("s1", "a", "m1"), 1), NewRow(SeedData("s1", "a", "m2"), 2),
      NewRow(SeedData("s1", "a:1", "m1"), 3), NewRow(SeedData("s2", "a", "m1"), 4)}}

----------------------------------------------------------------------------
(* The event source of a session and the reconciler's subscription *)

EventKinds ==
    {"messaging-history.set", "messages.upsert", "messages.update",
     "messages.delete", "message-receipt.update", "messages.reaction"}

\* The event kind each handler is registered on.
EventOf(op) ==
    CASE op = "set" -> "messaging-history.set"
      [] op = "upsert" -> "messages.upsert"
      [] op = "update" -> "messages.update"
      [] op = "del" -> "messages.delete"
      [] op = "updateReceipt" -> "message-receipt.update"
      [] op = "updateReaction" -> "messages.reaction"

\* event.on(kind, handler) adds a registration, also when the handler has one;
\* event.off(kind, handler) removes one registration, if there is any.
on(ls, kind) == [ls EXCEPT ![kind] = @ + 1]
off(ls, kind) == [ls EXCEPT ![kind] = IF @ > 0 THEN @ - 1 ELSE 0]

RECURSIVE onAll(_, _)
onAll(ls, kinds) ==
    IF kinds = {} THEN ls
    ELSE LET kind == CHOOSE k \in kinds : TRUE
         IN  onAll(on(ls, kind), kinds \ {kind})

RECURSIVE offAll(_, _)
offAll(ls, kinds) ==
    IF kinds = {} THEN ls
    ELSE LET kind == CHOOSE k \in kinds : TRUE
         IN  offAll(off(ls, kind), kinds \ {kind})

\* The event source invokes a handler for an event of the kind it is registered on.
Registered(sid, op) == listeners[sid][EventOf(op)] > 0

listenNoGuard(sid) ==
    /\ listeners' = [listeners EXCEPT ![sid] = onAll(@, EventKinds)]
    /\ listening' = [listening EXCEPT ![sid] = TRUE]
    /\ out' = Out("listen", sid, NoItem, <<>>, "none", <<>>)
    /\ UNCHANGED <<table, nextPk, procs, nEvents, rest>>

listen(sid) ==
    /\ IF listening[sid]
       THEN UNCHANGED lifecycle
       ELSE /\ listeners' = [listeners EXCEPT ![sid] = onAll(@, EventKinds)]
            /\ listening' = [listening EXCEPT ![sid] = TRUE]
    /\ out' = Out("listen", sid, NoItem, <<>>, "none", <<>>)
    /\ UNCHANGED <<table, nextPk, procs, nEvents, rest>>

unlisten(sid) ==
    /\ IF ~listening[sid]
       THEN UNCHANGED lifecycle
       ELSE /\ listeners' = [listeners EXCEPT ![sid] = offAll(@, EventKinds)]
            /\ listening' = [listening EXCEPT ![sid] = FALSE]
    /\ out' = Out("unlisten", sid, NoItem, <<>>, "none", <<>>)
    /\ UNCHANGED <<table, nextPk, procs, nEvents, rest>>

----------------------------------------------------------------------------
(* messaging-history.set *)

setData(message, sid) ==
    [key |-> transformPrisma(message).key,
     status |-> transformPrisma(message).status,
     messageTimestamp |-> transformPrisma(message).messageTimestamp,
     remoteJid |-> message.key.remoteJid,
     id |-> message.key.id,
     sessionId |-> sid]

\* The transaction of set: deleteMany if isLatest, createMany, commit.
\* inserted: the callback reached its emitEvent; committed: the commit succeeded.
setTransactionNoRollback(tbl, sid, messages, isLatest, fault, pk) ==
    LET afterDelete ==
            IF isLatest
            THEN deleteMany(tbl, {r \in tbl : r.sessionId = sid})
            ELSE tbl
        processedMessages == [i \in 1..Len(messages) |-> setData(messages[i], sid)]
        res == createMany(afterDelete, processedMessages, pk)
        inserted == fault # "statement" /\ res.ok
        committed == inserted /\ fault # "commit"
    IN  [inserted |-> inserted, committed |-> committed,
         table |-> IF committed THEN res.table ELSE afterDelete]

setTransactionAllSessions(tbl, sid, messages, isLatest, fault, pk) ==
    LET afterDelete == IF isLatest THEN deleteMany(tbl, tbl) ELSE tbl
        processedMessages == [i \in 1..Len(messages) |-> setData(messages[i], sid)]
        res == createMany(afterDelete, processedMessages, pk)
        inserted == fault # "statement" /\ res.ok
        committed == inserted /\ fault # "commit"
    IN  [inserted |-> inserted, committed |-> committed,
         table |-> IF committed THEN res.table ELSE tbl]

setTransaction(tbl, sid, messages, isLatest, fault, pk) ==
    LET afterDelete ==
            IF isLatest
            THEN deleteMany(tbl, {r \in tbl : r.sessionId = sid})
            ELSE tbl
        processedMessages == [i \in 1..Len(messages) |-> setData(messages[i], sid)]
        res == createMany(afterDelete, processedMessages, pk)
        inserted == fault # "statement" /\ res.ok
        committed == inserted /\ fault # "commit"
    IN  [inserted |-> inserted, committed |-> committed,
         table |-> IF committed THEN res.table ELSE tbl]

set(sid, messages, isLatest, fault) ==
    LET tx == setTransaction(table, sid, messages, isLatest, fault, nextPk)
    IN  /\ nEvents < MaxEvents
        /\ Registered(sid, "set")
        /\ nEvents' = nEvents + 1
        /\ table' = tx.table
        /\ nextPk' = IF tx.committed THEN nextPk + Len(messages) ELSE nextPk
        /\ out' = catch(Out("set", sid, [isLatest |-> isLatest, n |-> Len(messages)],
                            <<>>, fault,
                            IF tx.inserted
                            THEN Success("messages.upsert", sid, Len(messages))
                            ELSE <<>>),
                        ~tx.committed, "messages.upsert")
        /\ UNCHANGED <<procs, lifecycle, rest>>

----------------------------------------------------------------------------
(* Dispatch of the batch handlers: the invocation takes a free slot and its *)
(* for loop then runs one item at a time.                                   *)

FreeSlot(i) ==
    /\ procs[i].op = "idle"
    /\ \A j \in Slots : procs[j].op = "idle" => i <= j

Dispatch(op, sid, type, n, pc) ==
    /\ nEvents < MaxEvents
    /\ Registered(sid, op)
    /\ nEvents' = nEvents + 1
    /\ out' = Out(op, sid, [type |-> type, n |-> n], <<>>, "none", <<>>)
    /\ IF n = 0
       THEN UNCHANGED procs
       ELSE \E i \in Slots :
               /\ FreeSlot(i)
               /\ procs' = [procs EXCEPT ![i] = Started(op, sid, type, n, pc)]
    /\ UNCHANGED <<table, nextPk, lifecycle, rest>>

----------------------------------------------------------------------------
(* messages.upsert *)

upsert(sid, type, n) ==
    IF type \in {"append", "notify"}
    THEN Dispatch("upsert", sid, type, n, "upsert")
    ELSE Dispatch("upsert", sid, type, 0, "")

\* model.upsert({create, update, where}) of one message
upsertStatementKeepFirst(tbl, sid, message, pk) ==
    LET jid == jidNormalizedUser(message.key.remoteJid)
        data == transformPrisma(message)
        found == whereUnique(tbl, sid, jid, message.key.id)
    IN  IF found # {}
        THEN tbl
        ELSE tbl \cup {NewRow([key |-> data.key, status |-> data.status,
                               messageTimestamp |-> data.messageTimestamp,
                               remoteJid |-> jid, id |-> message.key.id,
                               sessionId |-> sid], pk)}

upsertStatement(tbl, sid, message, pk) ==
    LET jid == jidNormalizedUser(message.key.remoteJid)
        data == transformPrisma(message)
        found == whereUnique(tbl, sid, jid, message.key.id)
    IN  IF found # {}
        THEN {[r EXCEPT !.key = data.key, !.status = data.status,
                        !.messageTimestamp = data.messageTimestamp] : r \in found}
             \cup (tbl \ found)
        ELSE tbl \cup {NewRow([key |-> data.key, status |-> data.status,
                               messageTimestamp |-> data.messageTimestamp,
                               remoteJid |-> jid, id |-> message.key.id,
                               sessionId |-> sid], pk)}

\* The try and catch are inside the for loop: after a message, failed or
\* not, the loop goes on to the next.
upsertAbortBatch(p, fault) ==
    IF fault = "none" THEN NextItem(p, "upsert") ELSE Idle

upsertContinue(p, fault) == NextItem(p, "upsert")

\* if (type === "notify" && !chatExists) event.emit("chats.upsert", [...])
chatsUpsertAnyType(type, chatExists, message) ==
    IF ~chatExists
    THEN <<[event |-> "chats.upsert",
            id |-> jidNormalizedUser(message.key.remoteJid),
            conversationTimestamp |-> toNumber(message.messageTimestamp),
            unreadCount |-> 1]>>
    ELSE <<>>

chatsUpsert(type, chatExists, message) ==
    IF type = "notify" /\ ~chatExists
    THEN <<[event |-> "chats.upsert",
            id |-> jidNormalizedUser(message.key.remoteJid),
            conversationTimestamp |-> toNumber(message.messageTimestamp),
            unreadCount |-> 1]>>
    ELSE <<>>

\* One iteration of the loop.  fault "statement": model.upsert throws;
\* fault "count": prisma.chat.count throws, after the row is stored and the
\* success is published.  chatExists is what the count finds: the Chat table
\* belongs to another handler.
upsertMessage(i, message, fault, chatExists) ==
    LET p == procs[i]
        sid == p.sessionId
        stored == upsertStatement(table, sid, message, nextPk)
        done == fault # "statement"
    IN  /\ p.op = "upsert"
        /\ message \in Feed(sid)
        /\ table' = IF done THEN stored ELSE table
        /\ nextPk' = IF done /\ Cardinality(stored) > Cardinality(table)
                     THEN nextPk + 1 ELSE nextPk
        /\ out' = [catch(Out("upsertMessage", sid, message,
                             <<[type |-> p.type, chatExists |-> chatExists]>>, fault,
                             IF done
                             THEN Success("messages.upsert", sid, message.key)
                             ELSE <<>>),
                         fault # "none", "messages.upsert")
                   EXCEPT !.bus =
                       IF fault = "none" THEN chatsUpsert(p.type, chatExists, message)
                       ELSE <<>>]
        /\ procs' = [procs EXCEPT ![i] =
                       IF out'.escaped THEN Idle ELSE upsertContinue(p, fault)]
        /\ UNCHANGED <<nEvents, lifecycle, rest>>

----------------------------------------------------------------------------
(* messages.update *)

Updates(sid) == IF sid = "s1" THEN [status : {1, 2}] ELSE [status : {2}]

update(sid, n) == Dispatch("update", sid, "", n, "find")

\* The transaction's findFirst: a miss ends the item, a hit is kept for the writes.
FindMissIsError(i, op, item, fault, event) ==
    LET p == procs[i]
        sid == p.sessionId
        prevData == findFirst(table, sid, item.key)
    IN  /\ p.op = op
        /\ p.pc = "find"
        /\ item.key \in ItemKeys(sid)
        /\ out' = catch(Out(op \o ".find", sid, [key |-> item.key], <<>>, fault, <<>>),
                        fault # "none" \/ prevData = {}, event)
        /\ procs' = [procs EXCEPT ![i] =
                       IF fault # "none" \/ prevData = {}
                       THEN AfterItem(p, out', "find")
                       ELSE [p EXCEPT !.pc = "write", !.item = item,
                                      !.prev = <<CHOOSE r \in prevData : TRUE>>]]
        /\ UNCHANGED <<table, nextPk, nEvents, lifecycle, rest>>

Find(i, op, item, fault, event) ==
    LET p == procs[i]
        sid == p.sessionId
        prevData == findFirst(table, sid, item.key)
    IN  /\ p.op = op
        /\ p.pc = "find"
        /\ item.key \in ItemKeys(sid)
        /\ out' = catch(Out(op \o ".find", sid, [key |-> item.key], <<>>, fault, <<>>),
                        fault # "none", event)
        /\ procs' = [procs EXCEPT ![i] =
                       IF fault # "none" \/ prevData = {}
                       THEN AfterItem(p, out', "find")
                       ELSE [p EXCEPT !.pc = "write", !.item = item,
                                      !.prev = <<CHOOSE r \in prevData : TRUE>>]]
        /\ UNCHANGED <<table, nextPk, nEvents, lifecycle, rest>>

\* {...prevData, ...update}
Merge(prevData, delta) ==
    [f \in DOMAIN prevData |-> IF f \in DOMAIN delta THEN delta[f] ELSE prevData[f]]

processedMessage(data, sid) ==
    [transformPrisma(data) EXCEPT !.id = data.key.id,
                                  !.remoteJid = data.key.remoteJid,
                                  !.sessionId = sid]

\* The writes of a transaction and its commit: the statements' result is
\* stored unless a statement throws or the commit fails.
WriteNoRollback(i, op, res, fault, event, data) ==
    LET p == procs[i]
        written == fault # "statement" /\ res.ok
        committed == written /\ fault # "commit"
    IN  /\ p.op = op
        /\ p.pc = "write"
        /\ table' = IF fault = "statement" THEN table ELSE res.table
        /\ out' = catch(Out(op \o ".write", p.sessionId, p.item, p.prev, fault,
                            IF written THEN Success(event, p.sessionId, data) ELSE <<>>),
                        ~committed, event)
        /\ procs' = [procs EXCEPT ![i] = AfterItem(p, out', "find")]
        /\ UNCHANGED <<nextPk, nEvents, lifecycle, rest>>

Write(i, op, res, fault, event, data) ==
    LET p == procs[i]
        written == fault # "statement" /\ res.ok
        committed == written /\ fault # "commit"
    IN  /\ p.op = op
        /\ p.pc = "write"
        /\ table' = IF committed THEN res.table ELSE table
        /\ out' = catch(Out(op \o ".write", p.sessionId, p.item, p.prev, fault,
                            IF written THEN Success(event, p.sessionId, data) ELSE <<>>),
                        ~committed, event)
        /\ procs' = [procs EXCEPT ![i] = AfterItem(p, out', "find")]
        /\ UNCHANGED <<nextPk, nEvents, lifecycle, rest>>

updateFind(i, item, fault) == Find(i, "update", item, fault, "messages.update")

updateStatements(tbl, sid, item, prevData) ==
    LET data == Merge(prevData, item.update)
        old == whereUnique(tbl, sid, item.key.remoteJid, item.key.id)
    IN  IF old = {}
        THEN [ok |-> FALSE, table |-> tbl]
        ELSE create(deleteMany(tbl, old), processedMessage(data, sid))

updateWrite(i, fault) ==
    LET p == procs[i]
    IN  /\ p.op = "update"
        /\ p.pc = "write"
        /\ Write(i, "update",
                 updateStatements(table, p.sessionId, p.item, p.prev[1]),
                 fault, "messages.update", p.item.key)

----------------------------------------------------------------------------
(* messages.delete *)

DeleteAll(jid) == [all |-> TRUE, jid |-> jid, keys |-> <<>>]
DeleteKeys(keys) == [all |-> FALSE, jid |-> "", keys |-> keys]

DeleteItems(sid) ==
    {DeleteAll(jid) : jid \in FeedJids(sid)}
    \cup {DeleteKeys(keys) : keys \in Batches(FeedKeys(sid))}

delMatchingAnySession(tbl, sid, item) ==
    IF item.all
    THEN {r \in tbl : r.remoteJid = item.jid}
    ELSE {r \in tbl : /\ r.id \in {item.keys[k].id : k \in 1..Len(item.keys)}
                      /\ r.remoteJid = item.keys[1].remoteJid}

delMatching(tbl, sid, item) ==
    IF item.all
    THEN {r \in tbl : r.remoteJid = item.jid /\ r.sessionId = sid}
    ELSE {r \in tbl : /\ r.id \in {item.keys[k].id : k \in 1..Len(item.keys)}
                      /\ r.remoteJid = item.keys[1].remoteJid
                      /\ r.sessionId = sid}

del(sid, item, fault) ==
    LET thrown == fault # "none" \/ (~item.all /\ Len(item.keys) = 0)
    IN  /\ nEvents < MaxEvents
        /\ Registered(sid, "del")
        /\ nEvents' = nEvents + 1
        /\ table' = IF thrown THEN table ELSE deleteMany(table, delMatching(table, sid, item))
        /\ out' = catch(Out("del", sid, item, <<>>, fault,
                            IF thrown THEN <<>> ELSE Success("messages.delete", sid, item)),
                        thrown, "messages.delete")
        /\ UNCHANGED <<nextPk, procs, lifecycle, rest>>

----------------------------------------------------------------------------
(* message-receipt.update *)

Receipt(user, t) == [userJid |-> user, readTimestamp |-> t]

Receipts(sid) ==
    IF sid = "s1"
    THEN {Receipt("u1", 1), Receipt("u1", 2), Receipt("u2", 1)}
    ELSE {Receipt("u1", 1)}

updateReceipt(sid, n) == Dispatch("updateReceipt", sid, "", n, "find")

updateReceiptFind(i, item, fault) ==
    Find(i, "updateReceipt", item, fault, "message-receipt.update")

\* Replace the user's entry, or append.
mergeReceiptAppend(userReceipt, receipt) == Append(userReceipt, receipt)

mergeReceipt(userReceipt, receipt) ==
    IF \E k \in 1..Len(userReceipt) : userReceipt[k].userJid = receipt.userJid
    THEN Append(SelectSeq(userReceipt, LAMBDA m : m.userJid # receipt.userJid), receipt)
    ELSE Append(userReceipt, receipt)

\* update({data, where: {sessionId_remoteJid_id}}) of one column
updateColumn(tbl, sid, key, column, value) ==
    LET old == whereUnique(tbl, sid, key.remoteJid, key.id)
    IN  IF old = {}
        THEN [ok |-> FALSE, table |-> tbl]
        ELSE [ok |-> TRUE,
              table |-> (tbl \ old) \cup {[r EXCEPT ![column] = value] : r \in old}]

updateReceiptStatements(tbl, sid, item, message) ==
    LET userReceipt == mergeReceipt(message.userReceipt, item.receipt)
    IN  updateColumn(tbl, sid, item.key, "userReceipt", userReceipt)

updateReceiptWrite(i, fault) ==
    LET p == procs[i]
    IN  /\ p.op = "updateReceipt"
        /\ p.pc = "write"
        /\ Write(i, "updateReceipt",
                 updateReceiptStatements(table, p.sessionId, p.item, p.prev[1]),
                 fault, "message-receipt.update", p.item.key)

----------------------------------------------------------------------------
(* messages.reaction *)

ReactionKey(fromMe, participant, jid) ==
    [fromMe |-> fromMe, participant |-> participant, remoteJid |-> jid]

Reaction(key, text) == [key |-> key, text |-> text]

\* Reactions by three authors: the account itself (who also retracts, in a
\* group chat, where its key names a participant), a group participant, and a
\* chat partner known by the chat's jid alone.
Reactions(sid) ==
    IF sid = "s1"
    THEN {Reaction(ReactionKey(TRUE, "", "a"), "x"), Reaction(ReactionKey(TRUE, "p1", "a"), ""),
          Reaction(ReactionKey(FALSE, "p1", "a"), "x"),
          Reaction(ReactionKey(FALSE, "", "a"), "y")}
    ELSE {Reaction(ReactionKey(TRUE, "", "a"), "x")}

updateReaction(sid, n) == Dispatch("updateReaction", sid, "", n, "find")

updateReactionFind(i, item, fault) ==
    Find(i, "updateReaction", item, fault, "messages.reaction")

mergeReactionKeepEmpty(reactions, reaction) ==
    LET authorID == getKeyAuthor(reaction.key)
        others == SelectSeq(reactions, LAMBDA r : getKeyAuthor(r.key) # authorID)
    IN  Append(others, reaction)

mergeReaction(reactions, reaction) ==
    LET authorID == getKeyAuthor(reaction.key)
        others == SelectSeq(reactions, LAMBDA r : getKeyAuthor(r.key) # authorID)
    IN  IF reaction.text # "" THEN Append(others, reaction) ELSE others

updateReactionStatements(tbl, sid, item, message) ==
    LET reactions == mergeReaction(message.reactions, item.reaction)
    IN  updateColumn(tbl, sid, item.key, "reactions", reactions)

updateReactionWrite(i, fault) ==
    LET p == procs[i]
    IN  /\ p.op = "updateReaction"
        /\ p.pc = "write"
        /\ Write(i, "updateReaction",
                 updateReactionStatements(table, p.sessionId, p.item, p.prev[1]),
                 fault, "messages.reaction", p.item.key)

----------------------------------------------------------------------------
(* REST controller: sendBulk *)

\* delay = 1000 in the destructuring of an entry
DefaultDelay == 1000

\* A request entry {jid, delay}; the entry may name no delay.
\* (delay: <<>> for none, <<ms>>).
BulkEntries == [jid : {"j1", "j2"}, delay : {<<>>, <<5>>}]

BulkBodies == UNION {[1..n -> BulkEntries] : n \in 0..MaxBody}

BulkIdle ==
    [pc |-> "idle", body |-> <<>>, index |-> 0, results |-> <<>>, errors |-> <<>>,
     trace |-> <<>>, status |-> 0]

\* The request arrives: results and errors start empty, the loop at index 0.
sendBulk(body) ==
    /\ bulk.pc = "idle"
    /\ bulk' = [BulkIdle EXCEPT !.pc = "loop", !.body = body]
    /\ UNCHANGED <<table, nextPk, procs, out, nEvents, lifecycle, page>>

\* One iteration of the loop, for body[index].  exists: what jidExists
\* answers, or that it throws; sent: whether updatePresence or sendMessage
\* throws.  trace: the delays waited and the sendMessage calls, in order.
sendBulkEntryStopOnError(exists, sent) ==
    LET index == bulk.index
        entry == bulk.body[index + 1]
        delay == IF entry.delay = <<>> THEN DefaultDelay ELSE entry.delay[1]
        waited == IF index > 0
                  THEN <<[op |-> "delay", index |-> index, ms |-> delay]>>
                  ELSE <<>>
        call == <<[op |-> "sendMessage", index |-> index, jid |-> entry.jid]>>
        failed == exists # "yes" \/ sent # "ok"
    IN  /\ bulk.pc = "loop"
        /\ index < Len(bulk.body)
        /\ bulk' =
             [bulk EXCEPT
                !.index = IF failed THEN Len(bulk.body) ELSE index + 1,
                !.results = IF failed THEN @
                            ELSE Append(@, [index |-> index, result |-> entry.jid]),
                !.errors = IF ~failed THEN @
                           ELSE Append(@, [index |-> index,
                                           error |-> IF exists = "no"
                                                     THEN "JID does not exists"
                                                     ELSE "An error occured during message send"]),
                !.trace = IF exists # "yes" THEN @
                          ELSE IF sent = "presenceThrows" THEN @ \o waited
                          ELSE @ \o waited \o call]
        /\ UNCHANGED <<table, nextPk, procs, out, nEvents, lifecycle, page>>

sendBulkEntry(exists, sent) ==
    LET index == bulk.index
        entry == bulk.body[index + 1]
        delay == IF entry.delay = <<>> THEN DefaultDelay ELSE entry.delay[1]
        waited == IF index > 0
                  THEN <<[op |-> "delay", index |-> index, ms |-> delay]>>
                  ELSE <<>>
        call == <<[op |-> "sendMessage", index |-> index, jid |-> entry.jid]>>
        failed == exists # "yes" \/ sent # "ok"
    IN  /\ bulk.pc = "loop"
        /\ index < Len(bulk.body)
        /\ bulk' =
             [bulk EXCEPT
                !.index = index + 1,
                !.results = IF failed THEN @
                            ELSE Append(@, [index |-> index, result |-> entry.jid]),
                !.errors = IF ~failed THEN @
                           ELSE Append(@, [index |-> index,
                                           error |-> IF exists = "no"
                                                     THEN "JID does not exists"
                                                     ELSE "An error occured during message send"]),
                !.trace = IF exists # "yes" THEN @
                          ELSE IF sent = "presenceThrows" THEN @ \o waited
                          ELSE @ \o waited \o call]
        /\ UNCHANGED <<table, nextPk, procs, out, nEvents, lifecycle, page>>

\* res.status(...).json({results, errors}) after the loop
sendBulkRespond ==
    /\ bulk.pc = "loop"
    /\ bulk.index = Len(bulk.body)
    /\ bulk' = [bulk EXCEPT
                  !.pc = "done",
                  !.status = IF Len(bulk.body) # 0 /\ Len(bulk.errors) = Len(bulk.body)
                             THEN 500 ELSE 200]
    /\ UNCHANGED <<table, nextPk, procs, out, nEvents, lifecycle, page>>

----------------------------------------------------------------------------
(* REST controller: list *)

\* limit = 25 when the query names none
DefaultLimit == 25

\* The cursor of a request or a response: <<>> for none (null), <<pkId>>.
NoCursor == <<>>

RECURSIVE SortByPkId(_)
SortByPkId(rows) ==
    IF rows = {} THEN <<>>
    ELSE LET first == CHOOSE r \in rows : \A o \in rows : r.pkId <= o.pkId
         IN  <<first>> \o SortByPkId(rows \ {first})

\* findMany({cursor, take, skip, where: {sessionId}}) with take >= 0: the
\* session's rows in the order of the primary key pkId, from the cursor's row
\* on (none if the table has no such row), without the first skip of them,
\* at most take.
findMany(tbl, sid, cursor, take, skip) ==
    LET matching == {r \in tbl : r.sessionId = sid}
        from == IF cursor = NoCursor THEN matching
                ELSE IF \E r \in tbl : r.pkId = cursor[1]
                     THEN {r \in matching : r.pkId >= cursor[1]}
                     ELSE {}
        sorted == SortByPkId(from)
        skipped == SubSeq(sorted, skip + 1, Len(sorted))
    IN  SubSeq(skipped, 1, IF take < Len(skipped) THEN take ELSE Len(skipped))

\* A row as the response's JSON carries it.
serializePrisma(m) == [m EXCEPT !.messageTimestamp = @.n]

\* The response of list for the query {cursor, limit}.
listNoSkip(tbl, sid, cursor, limit) ==
    LET found == findMany(tbl, sid, cursor, limit, 0)
        messages == [k \in 1..Len(found) |-> serializePrisma(found[k])]
    IN  [status |-> 200, data |-> messages,
         cursor |-> IF Len(messages) # 0 /\ Len(messages) = limit
                    THEN <<messages[Len(messages)].pkId>>
                    ELSE NoCursor]

list(tbl, sid, cursor, limit) ==
    LET found == findMany(tbl, sid, cursor, limit, IF cursor # NoCursor THEN 1 ELSE 0)
        messages == [k \in 1..Len(found) |-> serializePrisma(found[k])]
    IN  [status |-> 200, data |-> messages,
         cursor |-> IF Len(messages) # 0 /\ Len(messages) = limit
                    THEN <<messages[Len(messages)].pkId>>
                    ELSE NoCursor]

\* The client of list: it starts with no cursor and calls again with the
\* cursor of each response until that is null.
PageIdle ==
    [pc |-> "idle", sessionId |-> "", limit |-> 0, cursor |-> NoCursor,
     rows |-> <<>>, last |-> <<>>, calls |-> 0]

Paged(sid, limit, res, rows, calls) ==
    [pc |-> IF res.cursor = NoCursor THEN "done" ELSE "paging",
     sessionId |-> sid, limit |-> limit, cursor |-> res.cursor,
     rows |-> rows \o res.data, last |-> res.data, calls |-> calls + 1]

\* const {cursor = undefined, limit = 25} = req.query; Number(limit)
NumberOfLimit(q) == IF q = <<>> THEN DefaultLimit ELSE q[1]

listFirst(sid, q) ==
    /\ page.pc = "idle"
    /\ page' = Paged(sid, NumberOfLimit(q),
                     list(table, sid, NoCursor, NumberOfLimit(q)), <<>>, 0)
    /\ UNCHANGED <<table, nextPk, procs, out, nEvents, lifecycle, bulk>>

listNext ==
    /\ page.pc = "paging"
    /\ page' = Paged(page.sessionId, page.limit,
                     list(table, page.sessionId, page.cursor, page.limit),
                     page.rows, page.calls)
    /\ UNCHANGED <<table, nextPk, procs, out, nEvents, lifecycle, bulk>>

\* Tables at rest for list: any of five stored rows, the two sessions'
\* pkIds interleaved.
ListRows ==
    {NewRow(SeedData("s1", "a", "m1"), 1), NewRow(SeedData("s2", "a", "m1"), 2),
     NewRow(SeedData("s1", "a", "m2"), 3), NewRow(SeedData("s1", "a:1", "m1"), 4),
     NewRow(SeedData("s2", "a", "m2"), 5)}

ListTables == SUBSET ListRows

\* The limit of a query: none, or a number.
Limits == {<<>>} \cup {<<n>> : n \in 0..MaxLimit}

----------------------------------------------------------------------------
(* Specifications *)

Batch == 0..MaxBatch

\* The database outlives the reconcilers; no handler runs, no request is open.
InitStorage ==
    /\ procs = [i \in Slots |-> Idle]
    /\ out = Out("none", "", NoItem, <<>>, "none", <<>>)
    /\ nEvents = 0
    /\ bulk = BulkIdle
    /\ page = PageIdle

\* messageHandler(sessionId, event) constructed for each session: listening = false.
InitLifecycle ==
    /\ table \in SeedTables
    /\ nextPk = Cardinality(table) + 1
    /\ InitStorage
    /\ listening = [sid \in Sessions |-> FALSE]
    /\ listeners = [sid \in Sessions |-> [kind \in EventKinds |-> 0]]

\* The reconcilers constructed and subscribed by their first listen().
Init ==
    /\ table \in SeedTables
    /\ nextPk = Cardinality(table) + 1
    /\ InitStorage
    /\ listening = [sid \in Sessions |-> TRUE]
    /\ listeners = [sid \in Sessions |-> onAll([kind \in EventKinds |-> 0], EventKinds)]

Next ==
    \/ \E sid \in Sessions : \E messages \in Batches(Feed(sid)),
          isLatest \in BOOLEAN, fault \in Faults :
            set(sid, messages, isLatest, fault)
    \/ \E sid \in Sessions, type \in {"append", "notify", "prepend"}, n \in Batch :
            upsert(sid, type, n)
    \/ \E i \in Slots, fault \in {"none", "statement", "count"}, chatExists \in BOOLEAN :
          \E message \in Feed(procs[i].sessionId) :
            upsertMessage(i, message, fault, chatExists)
    \/ \E sid \in Sessions, n \in Batch : update(sid, n)
    \/ \E i \in Slots, fault \in {"none", "statement"} :
          \E key \in ItemKeys(procs[i].sessionId), delta \in Updates(procs[i].sessionId) :
            updateFind(i, [key |-> key, update |-> delta], fault)
    \/ \E i \in Slots, fault \in Faults : updateWrite(i, fault)
    \/ \E sid \in Sessions : \E item \in DeleteItems(sid), fault \in {"none", "statement"} :
            del(sid, item, fault)
    \/ \E sid \in Sessions, n \in Batch : updateReceipt(sid, n)
    \/ \E i \in Slots, fault \in {"none", "statement"} :
          \E key \in ItemKeys(procs[i].sessionId), receipt \in Receipts(procs[i].sessionId) :
            updateReceiptFind(i, [key |-> key, receipt |-> receipt], fault)
    \/ \E i \in Slots, fault \in Faults : updateReceiptWrite(i, fault)
    \/ \E sid \in Sessions, n \in Batch : updateReaction(sid, n)
    \/ \E i \in Slots, fault \in {"none", "statement"} :
          \E key \in ItemKeys(procs[i].sessionId), reaction \in Reactions(procs[i].sessionId) :
            updateReactionFind(i, [key |-> key, reaction |-> reaction], fault)
    \/ \E i \in Slots, fault \in Faults : updateReactionWrite(i, fault)

Spec == Init /\ [][Next]_vars

NextLifecycle ==
    \/ \E sid \in Sessions : listen(sid)
    \/ \E sid \in Sessions : unlisten(sid)
    \/ Next

SpecLifecycle == InitLifecycle /\ [][NextLifecycle]_vars

InitBulk == Init

NextBulk ==
    \/ \E body \in BulkBodies : sendBulk(body)
    \/ \E exists \in {"yes", "no", "throws"}, sent \in {"ok", "presenceThrows", "sendThrows"} :
            sendBulkEntry(exists, sent)
    \/ sendBulkRespond

SpecBulk == InitBulk /\ [][NextBulk]_vars

InitList ==
    /\ table \in ListTables
    /\ nextPk = Cardinality(ListRows) + 1
    /\ InitStorage
    /\ listening = [sid \in Sessions |-> TRUE]
    /\ listeners = [sid \in Sessions |-> onAll([kind \in EventKinds |-> 0], EventKinds)]

NextList ==
    \/ \E sid \in Sessions, q \in Limits : listFirst(sid, q)
    \/ listNext

SpecList == InitList /\ [][NextList]_vars

----------------------------------------------------------------------------
(* Properties *)

HasSuccess(events) == \E k \in 1..Len(events) : events[k].status = "success"
HasError(events) == \E k \in 1..Len(events) : events[k].status = "error"

SessionRows(tbl, sid) == {r \in tbl : r.sessionId = sid}
OtherRows(tbl, sid) == {r \in tbl : r.sessionId # sid}

\* C1: in every reachable state, under every interleaving of the handlers'
\* steps, the table holds at most one row for each (sessionId, remoteJid, id).
C1_OneRowPerCompositeKey ==
    \A r1, r2 \in table : CompositeKey(r1) = CompositeKey(r2) => r1 = r2

\* A history sync of one message was rejected because its key is already stored.
C1_Witness ==
    /\ out.op = "set" /\ ~out.arg.isLatest /\ out.arg.n = 1
    /\ out.fault = "none" /\ HasError(out.events)
    /\ Cardinality(table) >= 2

\* C2: an upsert of a message (type append or notify) whose statement succeeds
\* leaves exactly one row for (sessionId, normalized remoteJid, id), holding the
\* message's payload fields; when the row was there already (the second
\* application) it is updated in place and no row is added.
C2_IdempotentUpsert ==
    [][(out'.op = "upsertMessage" /\ out'.fault # "statement") =>
        LET m == out'.arg
            sid == out'.sessionId
            jid == jidNormalizedUser(m.key.remoteJid)
            was == whereUnique(table, sid, jid, m.key.id)
            now == whereUnique(table', sid, jid, m.key.id)
        IN  /\ Cardinality(now) = 1
            /\ \A r \in now :
                  /\ r.key = m.key
                  /\ r.status = m.status
                  /\ r.messageTimestamp = toNumber(m.messageTimestamp)
                  /\ \A o \in was :
                        /\ r.pkId = o.pkId
                        /\ r.userReceipt = o.userReceipt
                        /\ r.reactions = o.reactions
            /\ was # {} => Cardinality(table') = Cardinality(table)
            /\ table' \ now = table \ was]_vars

\* The stored message a/m1 (pkId 1, status 1) was upserted again with status 2.
C2_Witness ==
    /\ out.op = "upsertMessage" /\ out.fault = "none"
    /\ out.arg = WAMessage("a", "m1", 2)
    /\ nEvents = 1 /\ nextPk = 5
    /\ \E r \in table : r.pkId = 1 /\ r.status = 2 /\ CompositeKey(r) = <<"s1", "a", "m1">>

\* C3: a set call with isLatest = true and N messages leaves exactly N rows for
\* the session when it emits no error, whatever rows the session had; when it
\* fails, the session's rows are exactly those present before the call.  Rows
\* of other sessions are the same either way.
C3_FullResyncAtomic ==
    [][(out'.op = "set" /\ out'.arg.isLatest) =>
        LET sid == out'.sessionId
        IN  /\ OtherRows(table', sid) = OtherRows(table, sid)
            /\ IF HasError(out'.events)
               THEN SessionRows(table', sid) = SessionRows(table, sid)
               ELSE /\ Cardinality(SessionRows(table', sid)) = out'.arg.n
                    /\ SessionRows(table', sid) \cap SessionRows(table, sid) = {}]_vars

\* A full resync of two messages replaced the three rows session s1 had.
C3_Witness ==
    /\ out.op = "set" /\ out.arg.isLatest /\ out.arg.n = 2
    /\ out.sessionId = "s1" /\ ~HasError(out.events)
    /\ nEvents = 1 /\ nextPk = 7
    /\ Cardinality(SessionRows(table, "s1")) = 2
    /\ Cardinality(OtherRows(table, "s1")) = 1

\* C4: every set call emits exactly one outcome event, a success or an error,
\* never both, also when the transaction fails at commit.
C4_OneOutcomePerSet ==
    out.op = "set" => Len(out.events) = 1

OnlySuccess(events) == HasSuccess(events) /\ ~HasError(events)

\* C5: after an update item whose transaction committed, a lookup by the
\* item's key (sessionId, remoteJid, id) finds the row, and the row has the
\* delta's status and every other field as the transaction read it.
C5_UpdateKeepsRow ==
    (out.op = "update.write" /\ OnlySuccess(out.events)) =>
        \E r \in findFirst(table, out.sessionId, out.arg.key) :
            /\ r.status = out.arg.update.status
            /\ \A f \in DOMAIN r \ {"status"} : r[f] = out.before[1][f]

UniqueUsers(userReceipt) ==
    \A j, k \in 1..Len(userReceipt) :
        userReceipt[j].userJid = userReceipt[k].userJid => j = k

NotOfUser(userReceipt, user) == SelectSeq(userReceipt, LAMBDA m : m.userJid # user)

\* C6: every row's userReceipt holds at most one entry per userJid; and after a
\* receipt item whose transaction committed, the row's userReceipt holds the
\* item's receipt as the user's only entry, the entries of the other users are
\* those the transaction read, and there is one entry more exactly when the
\* user had none.
C6_ReceiptReplaceNotAppend ==
    /\ \A r \in table : UniqueUsers(r.userReceipt)
    /\ (out.op = "updateReceipt.write" /\ OnlySuccess(out.events)) =>
         LET old == out.before[1].userReceipt
             receipt == out.arg.receipt
             had == \E k \in 1..Len(old) : old[k].userJid = receipt.userJid
         IN  \E r \in findFirst(table, out.sessionId, out.arg.key) :
                /\ \E k \in 1..Len(r.userReceipt) : r.userReceipt[k] = receipt
                /\ NotOfUser(r.userReceipt, receipt.userJid) = NotOfUser(old, receipt.userJid)
                /\ Len(r.userReceipt) = IF had THEN Len(old) ELSE Len(old) + 1

\* User u1's second receipt replaced the first and kept the entry of u2.
C6_Witness ==
    /\ out.op = "updateReceipt.write" /\ OnlySuccess(out.events)
    /\ out.before[1].userReceipt = <<Receipt("u1", 1), Receipt("u2", 1)>>
    /\ out.arg.receipt = Receipt("u1", 2)
    /\ \E r \in findFirst(table, out.sessionId, out.arg.key) :
          r.userReceipt = <<Receipt("u2", 1), Receipt("u1", 2)>>

UniqueAuthors(reactions) ==
    \A j, k \in 1..Len(reactions) :
        getKeyAuthor(reactions[j].key) = getKeyAuthor(reactions[k].key) => j = k

NoEmptyText(reactions) == \A k \in 1..Len(reactions) : reactions[k].text # ""

NotByAuthor(reactions, author) ==
    SelectSeq(reactions, LAMBDA r : getKeyAuthor(r.key) # author)

ByAuthor(reactions, author) ==
    SelectSeq(reactions, LAMBDA r : getKeyAuthor(r.key) = author)

\* C7: every row's reactions hold at most one reaction per author identity and
\* none with empty text; and after a reaction item whose transaction committed,
\* the reactions of the other authors are those the transaction read, and the
\* author has no reaction if the item's text is empty, else the item's reaction
\* alone.
C7_ReactionRetraction ==
    /\ \A r \in table : UniqueAuthors(r.reactions) /\ NoEmptyText(r.reactions)
    /\ (out.op = "updateReaction.write" /\ OnlySuccess(out.events)) =>
         LET old == out.before[1].reactions
             reaction == out.arg.reaction
             author == getKeyAuthor(reaction.key)
         IN  \E r \in findFirst(table, out.sessionId, out.arg.key) :
                /\ NotByAuthor(r.reactions, author) = NotByAuthor(old, author)
                /\ ByAuthor(r.reactions, author) =
                      IF reaction.text = "" THEN <<>> ELSE <<reaction>>

\* The account retracted its reaction; the participant's reaction stayed.
C7_Witness ==
    /\ out.op = "updateReaction.write" /\ OnlySuccess(out.events)
    /\ out.before[1].reactions = <<Reaction(ReactionKey(TRUE, "", "a"), "x"),
                                   Reaction(ReactionKey(FALSE, "p1", "a"), "x")>>
    /\ out.arg.reaction = Reaction(ReactionKey(TRUE, "p1", "a"), "")
    /\ \E r \in findFirst(table, out.sessionId, out.arg.key) :
          r.reactions = <<Reaction(ReactionKey(FALSE, "p1", "a"), "x")>>

\* C8: a del event {all: true, jid: X} handled for session S removes every row
\* with sessionId = S and remoteJid = X and changes no other row; when the
\* delete statement fails no row changes.
C8_DeleteAllScoping ==
    [][(out'.op = "del" /\ out'.arg.all) =>
        LET hit == {r \in table : r.sessionId = out'.sessionId
                                   /\ r.remoteJid = out'.arg.jid}
        IN  table' = IF HasError(out'.events) THEN table ELSE table \ hit]_vars

\* Chat "a" of session s1 was deleted; the row of chat "a:1" and the row of
\* session s2 for the same chat and id are left.
C8_Witness ==
    /\ out.op = "del" /\ out.arg.all /\ out.arg.jid = "a" /\ out.sessionId = "s1"
    /\ OnlySuccess(out.events)
    /\ nEvents = 1
    /\ {CompositeKey(r) : r \in table} = {<<"s1", "a:1", "m1">>, <<"s2", "a", "m1">>}

\* C9: a del event carrying a list of keys (also an empty list) removes exactly
\* the rows of that chat and session whose id is in the list, and emits exactly
\* one outcome event, which describes the delete request.
C9_DeleteByKeys ==
    [][(out'.op = "del" /\ ~out'.arg.all /\ out'.fault = "none") =>
        LET keys == out'.arg.keys
            hit == IF Len(keys) = 0 THEN {}
                   ELSE {r \in table : /\ r.sessionId = out'.sessionId
                                       /\ r.remoteJid = keys[1].remoteJid
                                       /\ r.id \in {keys[k].id : k \in 1..Len(keys)}}
        IN  /\ table' = table \ hit
            /\ out'.events = Success("messages.delete", out'.sessionId, out'.arg)]_vars

FindOps == {"update.find", "updateReceipt.find", "updateReaction.find"}

\* C10: an update, receipt or reaction item whose lookup finds no row for its
\* key changes no row, emits no outcome event, and is finished with the lookup
\* (no write follows).
C10_UnknownTargetNoOp ==
    [][(/\ out'.op \in FindOps
        /\ out'.fault = "none"
        /\ findFirst(table, out'.sessionId, out'.arg.key) = {}) =>
        /\ table' = table
        /\ out'.events = <<>>
        /\ \A i \in Slots : procs'[i] # procs[i] => procs'[i].pc # "write"]_vars

\* A lookup missed while the table holds other rows.
C10_Witness ==
    /\ out.op \in FindOps /\ out.fault = "none" /\ out.events = <<>>
    /\ findFirst(table, out.sessionId, out.arg.key) = {}
    /\ table # {}
    /\ \A i \in Slots : procs[i].op = "idle"

Unregistered(sid) == \A kind \in EventKinds : listeners[sid][kind] = 0

\* C11: under every sequence of listen() and unlisten() calls, interleaved with
\* the handlers' work, each handler is registered on its event kind once after
\* a listen() and not at all after an unlisten(), and no other step changes a
\* registration (so it is registered at most once, and exactly when the last
\* effective call was listen()); unlisten() on a reconciler that is not
\* subscribed changes nothing.
C11_ListenerIdempotence ==
    [][/\ \A sid \in Sessions, kind \in EventKinds :
             listeners'[sid][kind] =
                IF out'.op = "listen" /\ out'.sessionId = sid THEN 1
                ELSE IF out'.op = "unlisten" /\ out'.sessionId = sid THEN 0
                ELSE listeners[sid][kind]
       /\ (out'.op = "unlisten" /\ Unregistered(out'.sessionId)) =>
             UNCHANGED <<listeners, listening, table, nextPk, procs, nEvents>>]_vars

\* The reconciler of s1 was subscribed, handled two events and was unsubscribed;
\* the reconciler of s2 is still subscribed.
C11_Witness ==
    /\ out.op = "unlisten" /\ out.sessionId = "s1"
    /\ nEvents = 2
    /\ Unregistered("s1") /\ ~listening["s1"]
    /\ \A kind \in EventKinds : listeners["s2"][kind] = 1

\* C12: when a message of an append or notify batch fails (the upsert throws,
\* or the chat lookup after it), an error outcome event is emitted for it, the
\* loop goes on with the batch's next message, and no row of another message
\* changes; when the upsert itself failed, table and pkId counter are what
\* they were, so the other messages are stored as if the failing one had not
\* been in the batch.
C12_UpsertFailureIsolation ==
    [][(out'.op = "upsertMessage" /\ out'.fault # "none") =>
        LET m == out'.arg
            own(tbl) == whereUnique(tbl, out'.sessionId,
                                    jidNormalizedUser(m.key.remoteJid), m.key.id)
        IN  /\ HasError(out'.events)
            /\ \E i \in Slots :
                  /\ procs[i].op = "upsert"
                  /\ procs'[i] = NextItem(procs[i], "upsert")
                  /\ \A j \in Slots \ {i} : procs'[j] = procs[j]
            /\ table' \ own(table') = table \ own(table)
            /\ out'.fault = "statement" => (table' = table /\ nextPk' = nextPk)]_vars

\* The first message of a batch of two failed in its upsert; the loop stands
\* at the second.
C12_Witness ==
    /\ out.op = "upsertMessage" /\ out.fault = "statement" /\ HasError(out.events)
    /\ nEvents = 1
    /\ \E i \in Slots : procs[i].op = "upsert" /\ procs[i].left = 1

HandlerOps == {"set", "upsert", "upsertMessage", "update", "update.find", "update.write",
               "del", "updateReceipt", "updateReceipt.find", "updateReceipt.write",
               "updateReaction", "updateReaction.find", "updateReaction.write"}

\* C19: no step of a handler ends with an exception leaving the handler,
\* whatever storage fault it meets: the fault is reported as an error outcome
\* event; no handler step changes a registration; and while a reconciler is
\* subscribed its handlers are registered, so that its next event is handled.
C19_ErrorsStayInside ==
    /\ [](out.op \in HandlerOps => (~out.escaped /\ (out.fault # "none" => HasError(out.events))))
    /\ [](\A sid \in Sessions : listening[sid] =>
              \A op \in {"set", "upsert", "update", "del", "updateReceipt", "updateReaction"} :
                  Registered(sid, op))
    /\ [][out'.op \in HandlerOps => UNCHANGED <<listening, listeners>>]_vars

\* The commit of an update failed and was reported; the reconciler is still
\* subscribed and takes the next event.
C19_Witness ==
    /\ out.op = "update.write" /\ out.fault = "commit" /\ HasError(out.events)
    /\ nEvents = 1
    /\ listening[out.sessionId]
    /\ ENABLED del(out.sessionId, DeleteAll("a"), "none")

Indices(seq) == {seq[k].index : k \in 1..Len(seq)}

InIndexOrder(seq) == \A j, k \in 1..Len(seq) : j < k => seq[j].index < seq[k].index

ConfiguredDelay(entry) == IF entry.delay = <<>> THEN DefaultDelay ELSE entry.delay[1]

\* C13: at every point of a sendBulk request the entries handled so far are
\* those before the loop index, each in exactly one of results and errors,
\* both in index order, and the sendMessage calls were made in index order;
\* every entry in results with an index above 0 was sent right after a wait
\* of its configured delay, and nothing is waited for index 0; the response
\* is given when every entry was handled, whatever failed before it, with
\* status 500 if the body is not empty and every entry is in errors, else 200.
C13_SendBulk ==
    LET n == Len(bulk.body)
        calls == SelectSeq(bulk.trace, LAMBDA t : t.op = "sendMessage")
    IN  /\ Indices(bulk.results) \cup Indices(bulk.errors) = {k - 1 : k \in 1..bulk.index}
        /\ Indices(bulk.results) \cap Indices(bulk.errors) = {}
        /\ Len(bulk.results) + Len(bulk.errors) = bulk.index
        /\ InIndexOrder(bulk.results) /\ InIndexOrder(bulk.errors) /\ InIndexOrder(calls)
        /\ \A k \in 1..Len(bulk.results) :
              LET index == bulk.results[k].index
              IN  \E t \in 1..Len(bulk.trace) :
                     /\ bulk.trace[t] = [op |-> "sendMessage", index |-> index,
                                         jid |-> bulk.body[index + 1].jid]
                     /\ index > 0 =>
                           /\ t > 1
                           /\ bulk.trace[t - 1] =
                                 [op |-> "delay", index |-> index,
                                  ms |-> ConfiguredDelay(bulk.body[index + 1])]
        /\ \A t \in 1..Len(bulk.trace) : bulk.trace[t].op = "delay" => bulk.trace[t].index > 0
        /\ bulk.pc = "done" =>
              /\ bulk.index = n
              /\ bulk.status = IF n # 0 /\ Indices(bulk.errors) = {k - 1 : k \in 1..n}
                               THEN 500 ELSE 200
        /\ bulk.pc # "done" => bulk.status = 0

\* A body of three: entry 0 names an unknown JID, the send of entry 1 throws,
\* entry 2 is sent after its delay; the response is 200.
C13_Witness ==
    /\ bulk.pc = "done" /\ Len(bulk.body) = 3 /\ bulk.status = 200
    /\ bulk.errors = <<[index |-> 0, error |-> "JID does not exists"],
                       [index |-> 1, error |-> "An error occured during message send"]>>
    /\ Indices(bulk.results) = {2}
    /\ bulk.trace[Len(bulk.trace) - 1] = [op |-> "delay", index |-> 2, ms |-> DefaultDelay]

PkIds(seq) == [k \in 1..Len(seq) |-> seq[k].pkId]

\* What a client that pages through list has when it holds page: rows of its
\* session only, each a stored row, in ascending pkId order and so none
\* twice; the cursor of the last response is the pkId of the page's last row
\* if the page is full and null if it is shorter than the limit; and when the
\* cursor is null the client has every row of the session.
Paginated ==
    /\ \A k \in 1..Len(page.rows) :
          /\ page.rows[k].sessionId = page.sessionId
          /\ \E r \in table : serializePrisma(r) = page.rows[k]
    /\ \A j, k \in 1..Len(page.rows) : j < k => page.rows[j].pkId < page.rows[k].pkId
    /\ Len(page.last) < page.limit => page.cursor = NoCursor
    /\ (Len(page.last) = page.limit /\ Len(page.last) > 0) =>
          page.cursor = <<page.last[Len(page.last)].pkId>>
    /\ page.pc = "done" =>
          {page.rows[k].pkId : k \in 1..Len(page.rows)}
             = {r.pkId : r \in SessionRows(table, page.sessionId)}

\* C14 as stated, for every limit: with no concurrent writes, paging from no
\* cursor until the cursor is null returns every row of the session exactly
\* once, in pkId order, and no row of another session; the cursor is the pkId
\* of the last row of a full page and null for a shorter page.
C14_AnyLimit ==
    page.pc # "idle" => Paginated

\* C14, for a limit of at least 1 (the default 25 included).
C14_CursorPagination ==
    (page.pc # "idle" /\ page.limit >= 1) => Paginated

\* Session s1 has three of the table's five rows; with limit 2 the client got
\* a full page with cursor 3, then a short page with a null cursor.
C14_Witness ==
    /\ page.pc = "done" /\ page.sessionId = "s1" /\ page.limit = 2 /\ page.calls = 2
    /\ table = ListRows
    /\ PkIds(page.rows) = <<1, 3, 4>>
    /\ PkIds(page.last) = <<4>>

\* C15: the transaction of an update item whose lookup found the row either
\* fails, and then the table is what it was before the transaction, or puts
\* one row with the pkId it read in the place of the row stored for the key;
\* the table, which is what other transactions and later steps see, never
\* has the row deleted without its replacement.
C15_AtomicDeleteRecreate ==
    [][out'.op = "update.write" =>
        LET key == out'.arg.key
            old == whereUnique(table, out'.sessionId, key.remoteJid, key.id)
        IN  IF HasError(out'.events)
            THEN table' = table
            ELSE \E o \in old : \E new \in table' :
                    /\ new.pkId = out'.before[1].pkId
                    /\ table' = (table \ {o}) \cup {new}
                    /\ Cardinality(table') = Cardinality(table)]_vars

\* The delete of an update succeeded and its create was rejected by the
\* unique index; the row is still stored.
C15_Witness ==
    /\ out.op = "update.write" /\ out.fault = "none" /\ HasError(out.events)
    /\ out.before[1] \in table
    /\ findFirst(table, out.sessionId, out.arg.key) = {out.before[1]}

WriteOps == {"update.write", "updateReceipt.write", "updateReaction.write"}

\* What the transaction of an item makes of a table when nothing runs between
\* its lookup and its writes.
Alone(tbl, op, sid, item, fault) ==
    LET cur == findFirst(tbl, sid, item.key)
        row == CHOOSE r \in cur : TRUE
        res == CASE op = "update.write" -> updateStatements(tbl, sid, item, row)
                 [] op = "updateReceipt.write" -> updateReceiptStatements(tbl, sid, item, row)
                 [] op = "updateReaction.write" -> updateReactionStatements(tbl, sid, item, row)
    IN  IF cur # {} /\ fault = "none" /\ res.ok THEN res.table ELSE tbl

\* C16: events are handled in the order they are delivered, each handler as
\* if run to completion before the next: the table after the transaction of
\* an update, receipt or reaction item is what that transaction makes of the
\* table as the work before it left it, under every interleaving of the
\* handlers.
C16_DeliveryOrder ==
    [][out'.op \in WriteOps =>
        table' = Alone(table, out'.op, out'.sessionId, out'.arg, out'.fault)]_vars

\* C20: an update, receipt or reaction item emits a success outcome event only
\* if its transaction committed, and never both a success and an error.
C20_SuccessAfterCommit ==
    out.op \in WriteOps =>
        /\ HasSuccess(out.events) => out.fault = "none"
        /\ ~(HasSuccess(out.events) /\ HasError(out.events))

ChatsUpsert(message) ==
    <<[event |-> "chats.upsert", id |-> jidNormalizedUser(message.key.remoteJid),
       conversationTimestamp |-> message.messageTimestamp.n, unreadCount |-> 1]>>

Conversation(bus) ==
    [k \in 1..Len(bus) |-> [bus[k] EXCEPT !.conversationTimestamp = @.n]]

\* An upsert event of a type other than append and notify changes no row,
\* starts no work and emits nothing.
OtherTypesIgnored ==
    (out'.op = "upsert" /\ out'.arg.type \notin {"append", "notify"}) =>
        /\ UNCHANGED <<table, nextPk, procs>>
        /\ out'.events = <<>> /\ out'.bus = <<>>

C18_CrossSessionIsolation ==
    [][out'.op \in HandlerOps =>
        OtherRows(table', out'.sessionId) = OtherRows(table, out'.sessionId)]_vars

\* Session s1 was resynchronized in full while an update of session s2 stood
\* between its lookup and its writes; the row of s2 with the key a/m1, which
\* s1 stores too, is as it was.
C18_Witness ==
    /\ out.op = "set" /\ out.sessionId = "s1" /\ out.arg.isLatest
    /\ OnlySuccess(out.events)
    /\ \E i \in Slots : procs[i].sessionId = "s2" /\ procs[i].pc = "write"
    /\ NewRow(SeedData("s2", "a", "m1"), 4) \in table
    /\ SessionRows(table, "s1") # {}

====
